---- MODULE Spec2Model ----
(***************************************************************************)
(* Model of .github/scripts/update_stats.py: a script that asks the GitHub *)
(* GraphQL API for an account's total stars and lifetime commit count and  *)
(* renders them into a README from a template.                             *)
(*                                                                         *)
(* Time is counted in ticks.  One second is SubSec ticks (the sub-second   *)
(* resolution of datetime.now), one calendar year is YearSecs seconds, and *)
(* year y starts at tick y * YearTicks.  All datetimes are in UTC: the API *)
(* returns createdAt as a UTC timestamp of whole seconds ("...Z").         *)
(* Text is a sequence of characters, each written as a string: the         *)
(* character itself, or its code point ("U+00A0") where a TLA+ string      *)
(* cannot hold it.                                                         *)
(***************************************************************************)
EXTENDS Integers, Sequences, FiniteSets, TLC

\* ---------------------------------------------------------------- bounds
MaxPages == 3      \* most pages the simulated API serves for one account
MaxYear  == 2      \* calendar years 0 .. MaxYear
SubSec   == 2      \* ticks per second
YearSecs == 2      \* seconds per calendar year
MaxLen   == 6      \* longest template enumerated character by character
MaxPieces == 2     \* most pieces of a template assembled from Pieces

VARIABLES
    pc,             \* position of the run
    error,          \* the exception that ended the run, "none" while running
    env,            \* GITHUB_TOKEN, TOKEN and args.login as main reads them
    token,          \* client.token
    login,          \* args.login once validated
    requests,       \* requests sent to the API, in order
    responses,      \* the API's responses, in order
    total_stars,    \* fetch_total_stars: running total
    cursor,         \* fetch_total_stars: continuation cursor
    stars,          \* main: result of fetch_total_stars
    created_at,     \* fetch_commit_total: account creation time
    now,            \* fetch_commit_total: datetime.now(timezone.utc)
    period_start,   \* fetch_commit_total: start of the next window
    total_commits,  \* fetch_commit_total: running total
    windows,        \* (period_start, period_end) of every loop iteration
    commits,        \* main: result of fetch_commit_total
    files,          \* file operations performed, in order
    template_text,  \* main: text read from the template
    replacements,   \* render_template: the mapping
    rendered,       \* result of render_template
    readme          \* content of the output file, in bytes

vars == <<pc, error, env, token, login, requests, responses, total_stars, cursor,
          stars, created_at, now, period_start, total_commits, windows, commits,
          files, template_text, replacements, rendered, readme>>

starVars   == <<total_stars, cursor, stars>>
commitVars == <<created_at, now, period_start, total_commits, windows, commits>>
fileVars   == <<files, template_text, replacements, rendered, readme>>

\* ------------------------------------------------------------ Python values
NoneS  == "<None>"     \* Python's None where a string is expected
NoTime == -1           \* a datetime not yet assigned

\* not v
FalsyNoneOnly(v) == v = NoneS
Falsy(v) == v \in {NoneS, ""}

\* a or b
PyOr(a, b) == IF Falsy(a) THEN b ELSE a

\* ------------------------------------------------------------------- time
YearTicks == YearSecs * SubSec

Seconds == {s * SubSec : s \in 0 .. ((MaxYear + 1) * YearSecs - 1)}
Ticks   == 0 .. ((MaxYear + 1) * YearTicks - 1)

\* dt.year
Year(t) == t \div YearTicks

\* datetime(y, 1, 1, tzinfo=timezone.utc)
datetime(y) == y * YearTicks

\* isoformat(dt): the UTC instant with its microseconds dropped
isoformat(t) == t - (t % SubSec)

\* datetime.fromisoformat(created_at.replace("Z", "+00:00")) of a whole-second
\* UTC timestamp
fromisoformat(s) == s

\* ------------------------------------------------------------ API responses
Resp0 == [status |-> "ok", errors |-> FALSE, user |-> "object", createdAt |-> NoTime,
          nodes |-> <<>>, hasNextPage |-> FALSE, endCursor |-> NoneS, totalCommitContributions |-> 0]

HttpError == [Resp0 EXCEPT !.status = "http_error", !.user = "absent"]
UrlError  == [Resp0 EXCEPT !.status = "url_error", !.user = "absent"]
NullUser  == [Resp0 EXCEPT !.user = "null"]
NoUserKey == [Resp0 EXCEPT !.user = "absent"]

\* every response the API may give to a query whose successful payloads are P
Responses(P) ==
    {HttpError, UrlError, NullUser, NoUserKey, [NullUser EXCEPT !.errors = TRUE]}
        \cup P \cup {[p EXCEPT !.errors = TRUE] : p \in P}

Request(q, c, f, t) ==
    [query |-> q, auth |-> token, login |-> login, cursor |-> c, from |-> f, to |-> t]

\* GitHubGraphQLClient.execute, given the response the request gets
executeNoErrorCheck(resp) ==
    IF resp.status = "url_error" THEN [raised |-> "URLError", data |-> NoUserKey]
    ELSE IF resp.status = "http_error"
        THEN [raised |-> "RuntimeError:request_failed", data |-> NoUserKey]
    ELSE [raised |-> "none", data |-> resp]

execute(resp) ==
    IF resp.status = "url_error" THEN [raised |-> "URLError", data |-> NoUserKey]
    ELSE IF resp.status = "http_error"
        THEN [raised |-> "RuntimeError:request_failed", data |-> NoUserKey]
    ELSE IF resp.errors
        THEN [raised |-> "RuntimeError:api_errors", data |-> NoUserKey]
    ELSE [raised |-> "none", data |-> resp]

Send(req, resp) ==
    /\ requests' = Append(requests, req)
    /\ responses' = Append(responses, resp)

Raise(exc) ==
    /\ pc' = "failed"
    /\ error' = exc

\* data["user"][...] where user is missing or None
SubscriptUnchecked(user) == "none"
Subscript(user) ==
    IF user = "absent" THEN "KeyError" ELSE IF user = "null" THEN "TypeError" ELSE "none"

\* ------------------------------------------------------------- file content
\* A file holds bytes; read_text and write_text (encoding="utf-8") decode and
\* encode them.  The characters U+0020 .. U+007E, in order (U+0060 by name)
AsciiPrintable ==
    <<
      " ", "!", "\"", "#", "$", "%", "&", "'", "(", ")", "*", "+",
      ",", "-", ".", "/", "0", "1", "2", "3", "4", "5", "6", "7",
      "8", "9", ":", ";", "<", "=", ">", "?", "@", "A", "B", "C",
      "D", "E", "F", "G", "H", "I", "J", "K", "L", "M", "N", "O",
      "P", "Q", "R", "S", "T", "U", "V", "W", "X", "Y", "Z", "[",
      "\\", "]", "^", "_", "U+0060", "a", "b", "c", "d", "e", "f", "g",
      "h", "i", "j", "k", "l", "m", "n", "o", "p", "q", "r", "s",
      "t", "u", "v", "w", "x", "y", "z", "{", "|", "}", "~"
    >>

\* the other characters, each with its code point
OtherCodePoints ==
    { <<"\t", 9>>, <<"\n", 10>>, <<"\f", 12>>, <<"\r", 13>>,
      <<"U+000B", 11>>, <<"U+001C", 28>>, <<"U+001D", 29>>, <<"U+001E", 30>>,
      <<"U+001F", 31>>, <<"U+0085", 133>>, <<"U+00A0", 160>>, <<"U+00E9", 233>>,
      <<"U+1680", 5760>>, <<"U+2000", 8192>>, <<"U+2001", 8193>>, <<"U+2002", 8194>>,
      <<"U+2003", 8195>>, <<"U+2004", 8196>>, <<"U+2005", 8197>>, <<"U+2006", 8198>>,
      <<"U+2007", 8199>>, <<"U+2008", 8200>>, <<"U+2009", 8201>>, <<"U+200A", 8202>>,
      <<"U+200B", 8203>>, <<"U+2028", 8232>>, <<"U+2029", 8233>>, <<"U+202F", 8239>>,
      <<"U+205F", 8287>>, <<"U+3000", 12288>>, <<"U+1F600", 128512>> }

\* ord(c)
CodePoint(c) ==
    IF \E i \in 1 .. Len(AsciiPrintable) : AsciiPrintable[i] = c
        THEN 31 + (CHOOSE i \in 1 .. Len(AsciiPrintable) : AsciiPrintable[i] = c)
        ELSE (CHOOSE e \in OtherCodePoints : e[1] = c)[2]

\* the UTF-8 bytes of the character with code point cp
utf8(cp) ==
    IF cp < 128 THEN <<cp>>
    ELSE IF cp < 2048 THEN <<192 + (cp \div 64), 128 + (cp % 64)>>
    ELSE IF cp < 65536
        THEN <<224 + (cp \div 4096), 128 + ((cp \div 64) % 64), 128 + (cp % 64)>>
    ELSE <<240 + (cp \div 262144), 128 + ((cp \div 4096) % 64),
           128 + ((cp \div 64) % 64), 128 + (cp % 64)>>

\* text.encode("utf-8")
RECURSIVE encode(_)
encode(text) ==
    IF text = <<>> THEN <<>> ELSE utf8(CodePoint(Head(text))) \o encode(Tail(text))

\* ------------------------------------------------------------- environment
\* the output file as the run finds it
OldReadme == encode(<<"o", "l", "d">>)

Envs == [GITHUB_TOKEN : {NoneS, "", "t1"}, TOKEN : {NoneS, "", "t2"},
         login : {NoneS, "", "octocat"}]

Init ==
    /\ pc = "start"
    /\ error = "none"
    /\ env \in Envs
    /\ token = NoneS
    /\ login = NoneS
    /\ requests = <<>>
    /\ responses = <<>>
    /\ total_stars = 0
    /\ cursor = NoneS
    /\ stars = 0
    /\ created_at = NoTime
    /\ now = NoTime
    /\ period_start = NoTime
    /\ total_commits = 0
    /\ windows = <<>>
    /\ commits = 0
    /\ files = <<>>
    /\ template_text = <<>>
    /\ replacements = <<>>
    /\ rendered = <<>>
    /\ readme = OldReadme

\* main, lines 160-179: configuration, then the call of fetch_total_stars
ReadConfig ==
    /\ pc = "start"
    /\ LET tok == PyOr(env.GITHUB_TOKEN, env.TOKEN) IN
        IF Falsy(tok)
            THEN Raise("SystemExit:missing_token") /\ UNCHANGED <<token, login>>
        ELSE IF Falsy(env.login)
            THEN Raise("SystemExit:missing_login") /\ UNCHANGED <<token, login>>
        ELSE /\ token' = tok
             /\ login' = env.login
             /\ pc' = "stars"
             /\ error' = error
    /\ total_stars' = 0
    /\ cursor' = NoneS
    /\ UNCHANGED <<env, requests, responses, stars, commitVars, fileVars>>

\* ------------------------------------------------------- fetch_total_stars
RECURSIVE SumNodes(_)
SumNodes(nodes) ==
    IF nodes = <<>> THEN 0 ELSE Head(nodes) + SumNodes(Tail(nodes))

StarsRequests == SelectSeq(requests, LAMBDA r : r.query = "stars")

Page(nodes, more, c) ==
    [Resp0 EXCEPT !.nodes = nodes, !.hasNextPage = more, !.endCursor = c]

\* the cursor fetch_total_stars carries into the next request
NextCursorStale(cur, page) == cur
NextCursor(cur, page) == page.endCursor

\* one iteration of the loop of fetch_total_stars (lines 136-145)
StarsRequest(Pages) ==
    /\ pc = "stars"
    /\ \E resp \in Responses(Pages) :
        /\ resp.hasNextPage => Len(StarsRequests) + 1 < MaxPages
        /\ Send(Request("stars", cursor, NoTime, NoTime), resp)
        /\ LET r == execute(resp) IN
            IF r.raised # "none"
                THEN Raise(r.raised) /\ UNCHANGED starVars
            ELSE IF Subscript(r.data.user) # "none"
                THEN Raise(Subscript(r.data.user)) /\ UNCHANGED starVars
            ELSE /\ total_stars' = total_stars + SumNodes(r.data.nodes)
                 /\ error' = error
                 /\ IF ~r.data.hasNextPage
                        THEN /\ pc' = "commits"
                             /\ stars' = total_stars'
                             /\ cursor' = cursor
                        ELSE /\ pc' = pc
                             /\ stars' = stars
                             /\ cursor' = NextCursor(cursor, r.data)
    /\ UNCHANGED <<env, token, login, commitVars, fileVars>>

\* ------------------------------------------------------ fetch_commit_total
CreatedResp(d) == [Resp0 EXCEPT !.createdAt = d]
ContribResp(c) == [Resp0 EXCEPT !.totalCommitContributions = c]

ContribRequests == SelectSeq(requests, LAMBDA r : r.query = "contributions")

\* fetch_user_created_at, lines 66-71, given what execute returned
user_created_at_NoCheck(data) ==
    [raised |-> "none", value |-> fromisoformat(data.createdAt)]

user_created_at(data) ==
    IF data.user \in {"absent", "null"}
        THEN [raised |-> "RuntimeError:user_not_found", value |-> NoTime]
        ELSE [raised |-> "none", value |-> fromisoformat(data.createdAt)]

\* lines 76-90: the creation date, the current time, the loop's initial state
FetchCreatedAt(Created, Nows) ==
    /\ pc = "commits"
    /\ \E resp \in Responses({CreatedResp(d) : d \in Created}), n \in Nows :
        /\ Send(Request("createdAt", NoneS, NoTime, NoTime), resp)
        /\ LET r == execute(resp)
               u == user_created_at(r.data)
           IN
            IF r.raised # "none"
                THEN Raise(r.raised)
                     /\ UNCHANGED <<created_at, now, total_commits, period_start>>
            ELSE IF u.raised # "none"
                THEN Raise(u.raised)
                     /\ UNCHANGED <<created_at, now, total_commits, period_start>>
            ELSE /\ created_at' = u.value
                 /\ now' = n
                 /\ total_commits' = 0
                 /\ period_start' = u.value
                 /\ pc' = "windows"
                 /\ error' = error
    /\ UNCHANGED <<env, token, login, starVars, windows, commits, fileVars>>

\* lines 92-94: the end of the window that starts at start
PeriodEndUnclamped(start, n) == datetime(Year(start) + 1)

PeriodEndSameYear(start, n) ==
    LET period_end == datetime(Year(start)) IN
    IF period_end > n THEN n ELSE period_end

PeriodEnd(start, n) ==
    LET period_end == datetime(Year(start) + 1) IN
    IF period_end > n THEN n ELSE period_end

\* line 91
LoopTestInclusive(start, n) == start <= n
LoopTest(start, n) == start < n

\* one iteration of the loop of fetch_commit_total (lines 91-105)
WindowRequest(Counts) ==
    /\ pc = "windows"
    /\ LoopTest(period_start, now)
    /\ LET period_end == PeriodEnd(period_start, now) IN
        /\ windows' = Append(windows, <<period_start, period_end>>)
        /\ \E resp \in Responses({ContribResp(c) : c \in Counts}) :
            /\ Send(Request("contributions", NoneS,
                            isoformat(period_start), isoformat(period_end)), resp)
            /\ LET r == execute(resp) IN
                IF r.raised # "none"
                    THEN Raise(r.raised) /\ UNCHANGED <<total_commits, period_start>>
                ELSE IF Subscript(r.data.user) # "none"
                    THEN Raise(Subscript(r.data.user))
                         /\ UNCHANGED <<total_commits, period_start>>
                ELSE /\ total_commits' = total_commits + r.data.totalCommitContributions
                     /\ period_start' = period_end
                     /\ pc' = pc
                     /\ error' = error
    /\ UNCHANGED <<env, token, login, starVars, created_at, now, commits, fileVars>>

\* the loop test fails: line 107, and main's lines 180-182
CommitsReturn ==
    /\ pc = "windows"
    /\ ~LoopTest(period_start, now)
    /\ commits' = total_commits
    /\ pc' = "stats_done"
    /\ UNCHANGED <<error, env, token, login, requests, responses, starVars, created_at,
                   now, period_start, total_commits, windows, fileVars>>

\* ---------------------------------------------------------- render_template
Upper == {"A", "B", "C", "D", "E", "F", "G", "H", "I", "J", "K", "L", "M",
          "N", "O", "P", "Q", "R", "S", "T", "U", "V", "W", "X", "Y", "Z"}
DigitChars == <<"0", "1", "2", "3", "4", "5", "6", "7", "8", "9">>

\* [A-Z0-9_]
TokenChars == Upper \cup {DigitChars[i] : i \in 1 .. 10} \cup {"_"}

\* \s of a str pattern, which is also what str.strip() removes: the 29
\* characters c with c.isspace()
Whitespace ==
    {"\t", "\n", "U+000B", "\f", "\r", "U+001C", "U+001D", "U+001E", "U+001F", " ",
     "U+0085", "U+00A0", "U+1680", "U+2000", "U+2001", "U+2002", "U+2003", "U+2004",
     "U+2005", "U+2006", "U+2007", "U+2008", "U+2009", "U+200A", "U+2028", "U+2029",
     "U+202F", "U+205F", "U+3000"}

\* the first index from i on whose character is not in Class
RECURSIVE SkipWhile(_, _, _)
SkipWhile(text, i, Class) ==
    IF i <= Len(text) /\ text[i] \in Class THEN SkipWhile(text, i + 1, Class) ELSE i

\* PLACEHOLDER_PATTERN (line 20) matched at index i: "{{", \s*, the token, \s*, "}}"
Match(text, i) ==
    LET b == SkipWhile(text, i + 2, Whitespace)
        c == SkipWhile(text, b, TokenChars)
        d == SkipWhile(text, c, Whitespace)
    IN  IF /\ i + 1 <= Len(text)
           /\ text[i] = "{"
           /\ text[i + 1] = "{"
           /\ c > b
           /\ d + 1 <= Len(text)
           /\ text[d] = "}"
           /\ text[d + 1] = "}"
        THEN [found |-> TRUE, end |-> d + 1, group1 |-> SubSeq(text, b, c - 1)]
        ELSE [found |-> FALSE, end |-> 0, group1 |-> <<>>]

\* values of the mapping: Python ints and strings
PyInt(n) == [type |-> "int", n |-> n, s |-> <<>>]
PyStr(s) == [type |-> "str", n |-> 0, s |-> s]

\* str(value)
RECURSIVE Decimal(_)
Decimal(n) ==
    IF n < 10 THEN <<DigitChars[n + 1]>>
    ELSE Decimal(n \div 10) \o <<DigitChars[(n % 10) + 1]>>

str(v) == IF v.type = "int" THEN Decimal(v.n) ELSE v.s

\* s.strip()
RECURSIVE strip(_)
strip(s) ==
    IF s = <<>> THEN s
    ELSE IF Head(s) \in Whitespace THEN strip(Tail(s))
    ELSE IF s[Len(s)] \in Whitespace THEN strip(SubSeq(s, 1, Len(s) - 1))
    ELSE s

\* substitute (lines 151-155), given match.group(0) and match.group(1)
substituteDropUnknown(group0, group1, repl) ==
    LET key == strip(group1) IN
    IF key \in DOMAIN repl THEN str(repl[key]) ELSE <<>>

substitute(group0, group1, repl) ==
    LET key == strip(group1) IN
    IF key \in DOMAIN repl THEN str(repl[key]) ELSE group0

\* PLACEHOLDER_PATTERN.sub(substitute, text) from index pos on: the matches are
\* found left to right and do not overlap
RECURSIVE Sub(_, _, _)
Sub(text, pos, repl) ==
    IF pos > Len(text) THEN <<>>
    ELSE LET m == Match(text, pos) IN
        IF m.found
            THEN substitute(SubSeq(text, pos, m.end), m.group1, repl)
                     \o Sub(text, m.end + 1, repl)
            ELSE <<text[pos]>> \o Sub(text, pos + 1, repl)

render_template(text, repl) == Sub(text, 1, repl)

STARS   == <<"S", "T", "A", "R", "S">>
COMMITS == <<"C", "O", "M", "M", "I", "T", "S">>

\* {"STARS": stars, "COMMITS": commits}
StatsMapping(s, c) ==
    [k \in {STARS, COMMITS} |-> IF k = STARS THEN PyInt(s) ELSE PyInt(c)]

\* read_text's newline translation: "\r\n" and "\r" are read as "\n"
RECURSIVE universal_newlines(_)
universal_newlines(t) ==
    IF t = <<>> THEN <<>>
    ELSE IF Head(t) = "\r"
        THEN <<"\n">> \o universal_newlines(IF Len(t) >= 2 /\ t[2] = "\n"
                                                THEN SubSeq(t, 3, Len(t)) ELSE Tail(t))
    ELSE <<Head(t)>> \o universal_newlines(Tail(t))

\* main, lines 184-186: read the template.  The file holds the UTF-8 bytes of
\* some text t, or bytes that are not UTF-8, or it does not exist.
ReadTemplate(Templates) ==
    /\ pc = "stats_done"
    /\ files' = Append(files, "read")
    /\ \E content \in {"text", "not_utf8", "missing"}, t \in Templates :
        IF content = "text"
            THEN /\ template_text' = universal_newlines(t)
                 /\ pc' = "render"
                 /\ error' = error
        ELSE IF content = "not_utf8"
            THEN /\ Raise("UnicodeDecodeError")
                 /\ template_text' = template_text
        ELSE /\ Raise("FileNotFoundError")
             /\ template_text' = template_text
    /\ UNCHANGED <<env, token, login, requests, responses, starVars, commitVars,
                   replacements, rendered, readme>>

\* main, lines 187-189: render and write the output file.  write_text opens
\* the file (truncating it) and writes; the file cannot be opened, or the write
\* stops after some of the bytes, or it completes ("\n" is written as it is
\* on POSIX).
RenderWrite ==
    /\ pc = "render"
    /\ replacements' = StatsMapping(stars, commits)
    /\ rendered' = render_template(template_text, replacements')
    /\ files' = Append(files, "write")
    /\ \E outcome \in {"written", "not_opened", "cut_short"} :
        IF outcome = "written"
            THEN /\ readme' = encode(rendered')
                 /\ pc' = "done"
                 /\ error' = error
        ELSE IF outcome = "not_opened"
            THEN /\ readme' = readme
                 /\ Raise("OSError")
        ELSE /\ \E k \in 0 .. Len(encode(rendered')) - 1 :
                readme' = SubSeq(encode(rendered'), 1, k)
             /\ Raise("OSError")
    /\ UNCHANGED <<env, token, login, requests, responses, starVars, commitVars,
                   template_text>>

\* a call of render_template on its own
RenderCall ==
    /\ pc = "render_call"
    /\ rendered' = render_template(template_text, replacements)
    /\ pc' = "render_done"
    /\ UNCHANGED <<error, env, token, login, requests, responses, starVars, commitVars,
                   files, template_text, replacements, readme>>

\* ------------------------------------------------------------------ inputs
\* what the simulated API may answer
NodeLists == {<<>>, <<1>>, <<2, 1>>}
Cursors   == {"c1", "c2"}
AllPages  == {Page(n, m, c) : n \in NodeLists, m \in BOOLEAN, c \in Cursors}
AllCounts == {0, 3}

\* the inputs of a whole run of main
MainPages     == {Page(<<2, 1>>, TRUE, "c1"), Page(<<1>>, FALSE, "c2")}
MainCreated   == {datetime(0) + SubSec}
MainNows      == {datetime(1) + 1, datetime(0)}
MainCounts    == {3}
MainTemplates ==
    { <<"{", "{", " ">> \o STARS \o <<" ", "}", "}", "x", "{", "{">> \o COMMITS
          \o <<"}", "}", "{", "{", "F", "O", "O", "}", "}">>,
      <<"{", "{", "\f">> \o STARS \o <<"U+00A0", "}", "}", "\r", "\n", "{", "{", "\r">>
          \o COMMITS \o <<"}", "}", "\r">>,
      <<"c", "a", "f", "U+00E9">> \o <<"{", "{">> \o STARS \o <<"}", "}", "U+2028", "U+1F600", "!">>,
      <<"x">> }

\* the templates and mappings render_template is called on by itself
Alphabet == {"{", "}", " ", "S", "x"}

Strings(n) == UNION {[1 .. k -> Alphabet] : k \in 0 .. n}

Pieces == { <<"{", "{", "S", "}", "}">>, <<"{", "{", " ", "T", "_", "1", " ", "}", "}">>,
            <<"{", "{", "\n", "S", "}", "}">>, <<"{", "{", "s", "}", "}">>,
            <<"{", "{", "S", " ", "T", "}", "}">>, <<"{", "{">>, <<"}">>, <<"x">>,
            <<"{", "{", "\r", "S", "\f", "}", "}">>,
            <<"{", "{", "U+00A0", "T", "_", "1", "U+000B", "\r", "\n", "}", "}">>,
            <<"{", "{", "U+200B", "S", "}", "}">> }

RECURSIVE Assembled(_)
Assembled(n) ==
    IF n = 0 THEN {<<>>}
    ELSE LET shorter == Assembled(n - 1) IN
         shorter \cup {a \o b : a \in shorter, b \in Pieces}

Texts == Strings(MaxLen) \cup Assembled(MaxPieces)

Mappings ==
    { <<>>,
      [k \in {<<"S">>} |-> PyInt(42)],
      [k \in {<<"S">>, <<"T", "_", "1">>} |->
          IF k = <<"S">> THEN PyStr(<<"{", "{", "T", "_", "1", "}", "}">>) ELSE PyInt(7)] }

\* ---------------------------------------------------------- specifications
\* a whole run of main
Next ==
    \/ ReadConfig
    \/ StarsRequest(MainPages)
    \/ FetchCreatedAt(MainCreated, MainNows)
    \/ WindowRequest(MainCounts)
    \/ CommitsReturn
    \/ ReadTemplate(MainTemplates)
    \/ RenderWrite

Spec == Init /\ [][Next]_vars

\* the state in which main has built the client and validated the login
Configured(at) ==
    /\ pc = at
    /\ error = "none"
    /\ env = [GITHUB_TOKEN |-> "t1", TOKEN |-> NoneS, login |-> "octocat"]
    /\ token = "t1"
    /\ login = "octocat"
    /\ requests = <<>>
    /\ responses = <<>>
    /\ total_stars = 0
    /\ cursor = NoneS
    /\ stars = 0
    /\ created_at = NoTime
    /\ now = NoTime
    /\ period_start = NoTime
    /\ total_commits = 0
    /\ windows = <<>>
    /\ commits = 0
    /\ files = <<>>
    /\ template_text = <<>>
    /\ replacements = <<>>
    /\ rendered = <<>>
    /\ readme = OldReadme

\* a call of fetch_total_stars against any simulated API
InitStars == Configured("stars")
NextStars == StarsRequest(AllPages)
SpecStars == InitStars /\ [][NextStars]_vars

\* a call of fetch_commit_total for any creation time and current time
InitCommits == Configured("commits")
NextCommits ==
    \/ FetchCreatedAt(Seconds, Ticks)
    \/ WindowRequest(AllCounts)
    \/ CommitsReturn
SpecCommits == InitCommits /\ [][NextCommits]_vars

\* a call of render_template on any template and mapping
InitRender ==
    /\ pc = "render_call"
    /\ error = "none"
    /\ env = [GITHUB_TOKEN |-> "t1", TOKEN |-> NoneS, login |-> "octocat"]
    /\ token = "t1"
    /\ login = "octocat"
    /\ requests = <<>>
    /\ responses = <<>>
    /\ total_stars = 0
    /\ cursor = NoneS
    /\ stars = 0
    /\ created_at = NoTime
    /\ now = NoTime
    /\ period_start = NoTime
    /\ total_commits = 0
    /\ windows = <<>>
    /\ commits = 0
    /\ files = <<>>
    /\ template_text \in Texts
    /\ replacements \in Mappings
    /\ rendered = <<>>
    /\ readme = OldReadme
NextRender == RenderCall
SpecRender == InitRender /\ [][NextRender]_vars

\* ------------------------------------------------------------------ claims
Last(s) == s[Len(s)]

Max(a, b) == IF a > b THEN a ELSE b

\* the (from, to) pairs of the contribution requests, as sent
SentWindows == [i \in 1 .. Len(ContribRequests) |->
                   <<ContribRequests[i].from, ContribRequests[i].to>>]

\* fetch_commit_total has returned, every API call having succeeded
CommitsDone == pc = "stats_done"

\* C1, as claimed: for D < N the windows sent start at D, end at N, each ends
\* where the next starts, and every one has start < end.
C1_Original ==
    (CommitsDone /\ created_at < now) =>
        /\ SentWindows # <<>>
        /\ SentWindows[1][1] = created_at
        /\ Last(SentWindows)[2] = now
        /\ \A i \in 1 .. Len(SentWindows) - 1 : SentWindows[i][2] = SentWindows[i + 1][1]
        /\ \A i \in 1 .. Len(SentWindows) : SentWindows[i][1] < SentWindows[i][2]

\* C1, amended: for D < N the windows sent start at D, end at N truncated to
\* whole seconds, each ends where the next starts, every window but the last
\* has start < end, and the last has start <= end, being empty exactly when N
\* lies less than one second after its start.
C1_WindowsCoverToTheSecond ==
    (CommitsDone /\ created_at < now) =>
        /\ SentWindows # <<>>
        /\ SentWindows[1][1] = created_at
        /\ Last(SentWindows)[2] <= now
        /\ now - Last(SentWindows)[2] < SubSec
        /\ Last(SentWindows)[2] % SubSec = 0
        /\ \A i \in 1 .. Len(SentWindows) - 1 :
            /\ SentWindows[i][2] = SentWindows[i + 1][1]
            /\ SentWindows[i][1] < SentWindows[i][2]
        /\ Last(SentWindows)[1] <= Last(SentWindows)[2]
        /\ (Last(SentWindows)[1] = Last(SentWindows)[2]) <=> (now - Last(SentWindows)[1] < SubSec)

C1_Witness ==
    /\ CommitsDone
    /\ created_at < now
    /\ Len(SentWindows) >= 3
    /\ now % SubSec # 0
    /\ Last(SentWindows)[1] = Last(SentWindows)[2]

\* the pages fetch_total_stars was served
RECURSIVE NodesOfPages(_, _)
NodesOfPages(rs, k) ==
    IF k = 0 THEN <<>> ELSE NodesOfPages(rs, k - 1) \o rs[k].nodes

RECURSIVE SumTo(_, _)
SumTo(s, i) == IF i = 0 THEN 0 ELSE SumTo(s, i - 1) + s[i]

GoodPage(r) == r.status = "ok" /\ ~r.errors /\ r.user = "object"

\* C2: when the first page with hasNextPage = false is page k, fetch_total_stars
\* sends exactly k requests and returns the sum of the stargazerCount of the
\* nodes of pages 1..k; the first request carries no cursor and request i+1
\* carries the endCursor of response i.
C2_PaginationStopsAndSums ==
    /\ Len(requests) = Len(responses)
    /\ requests # <<>> => requests[1].cursor = NoneS
    /\ \A i \in 1 .. Len(requests) - 1 :
        /\ GoodPage(responses[i]) /\ responses[i].hasNextPage
        /\ requests[i + 1].cursor = responses[i].endCursor
    /\ (responses # <<>> /\ GoodPage(Last(responses)) /\ ~Last(responses).hasNextPage) =>
        /\ pc = "commits"
        /\ ~ENABLED NextStars
        /\ stars = SumTo(NodesOfPages(responses, Len(responses)),
                         Len(NodesOfPages(responses, Len(responses))))
    /\ pc = "commits" => GoodPage(Last(responses)) /\ ~Last(responses).hasNextPage

C2_Witness ==
    /\ pc = "commits"
    /\ Len(requests) = 3
    /\ \A i \in 1 .. 3 : Len(responses[i].nodes) = 2
    /\ responses[1].endCursor # responses[2].endCursor
    /\ stars = 9

\* what the claim calls a placeholder: "{{", optional whitespace, a token of
\* uppercase letters, digits and underscores, optional whitespace, "}}"
\* whitespace as Python counts it (str.isspace): the ASCII blanks and
\* separators, NEL, NBSP and the Unicode space separators
PlaceholderWhitespace(c) ==
    \/ c \in {" ", "\t", "\n", "\r", "\f", "U+000B"}
    \/ c \in {"U+001C", "U+001D", "U+001E", "U+001F"}
    \/ c \in {"U+0085", "U+00A0", "U+1680", "U+2028", "U+2029", "U+202F", "U+205F", "U+3000"}
    \/ c \in {"U+2000", "U+2001", "U+2002", "U+2003", "U+2004", "U+2005", "U+2006",
               "U+2007", "U+2008", "U+2009", "U+200A"}

PlaceholderTokenChar(c) == c \in Upper \/ c = "_" \/ \E d \in 1 .. 10 : c = DigitChars[d]

IsPlaceholder(s) ==
    LET n == Len(s) IN
    /\ n >= 5
    /\ s[1] = "{" /\ s[2] = "{" /\ s[n - 1] = "}" /\ s[n] = "}"
    /\ \E p \in 3 .. n - 2, q \in 3 .. n - 2 :
        /\ p <= q
        /\ \A k \in 3 .. n - 2 :
            IF k < p \/ k > q THEN PlaceholderWhitespace(s[k]) ELSE PlaceholderTokenChar(s[k])

TokenOf(s) == SelectSeq(s, PlaceholderTokenChar)

\* the placeholder occurrences of text, as <<first, last>> index pairs
Occurrences(text) ==
    {o \in (1 .. Len(text)) \X (1 .. Len(text)) :
        o[1] < o[2] /\ IsPlaceholder(SubSeq(text, o[1], o[2]))}

\* text from index pos on, with every occurrence whose token is a key of m
\* replaced by the string form of its value
RECURSIVE Replaced(_, _, _)
Replaced(text, pos, m) ==
    IF pos > Len(text) THEN <<>>
    ELSE IF \E o \in Occurrences(text) : o[1] = pos
        THEN LET o == CHOOSE o \in Occurrences(text) : o[1] = pos
                 occ == SubSeq(text, o[1], o[2])
             IN  (IF TokenOf(occ) \in DOMAIN m THEN str(m[TokenOf(occ)]) ELSE occ)
                     \o Replaced(text, o[2] + 1, m)
        ELSE <<text[pos]>> \o Replaced(text, pos + 1, m)

\* C3: render_template(text, m) is text with every placeholder whose token is a
\* key of m replaced by the string form of m[token]; placeholders with other
\* tokens and all text outside placeholders stay verbatim, and it never fails.
C3_RenderReplacesKnownPlaceholders ==
    pc = "render_done" =>
        /\ rendered = Replaced(template_text, 1, replacements)
        /\ (Occurrences(template_text) = {} => rendered = template_text)
        /\ error = "none"

C3_Witness ==
    /\ pc = "render_done"
    /\ \E o \in Occurrences(template_text) :
        /\ TokenOf(SubSeq(template_text, o[1], o[2])) \in DOMAIN replacements
        /\ template_text[o[1] + 2] = "\r"
    /\ \E o \in Occurrences(template_text) :
        /\ TokenOf(SubSeq(template_text, o[1], o[2])) \notin DOMAIN replacements
        /\ o[2] - o[1] > 4 + Len(TokenOf(SubSeq(template_text, o[1], o[2])))
    /\ rendered # template_text

BadResponse(r) == r.status # "ok" \/ r.errors \/ r.user # "object"

Written == readme # OldReadme \/ \E i \in 1 .. Len(files) : files[i] = "write"

\* C4: if any API request fails (transport error, API error payload, account
\* not found) the run ends with an error and the output file is never written;
\* whenever the file has been written, both totals were computed in full
\* without error.
C4_NoWriteUnlessStatsComplete ==
    /\ (\E i \in 1 .. Len(responses) : BadResponse(responses[i])) =>
        /\ pc = "failed"
        /\ error # "none"
        /\ ~Written
    /\ Written =>
        /\ error \in {"none", "OSError"}
        /\ \A i \in 1 .. Len(responses) : ~BadResponse(responses[i])
        /\ \E k \in 1 .. Len(requests) - 1 :
            /\ \A i \in 1 .. Len(requests) : requests[i].query = "stars" <=> i <= k
            /\ ~responses[k].hasNextPage
            /\ stars = SumTo(NodesOfPages(responses, k), Len(NodesOfPages(responses, k)))
            /\ requests[k + 1].query = "createdAt"
            /\ commits = SumTo([i \in 1 .. Len(responses) - k - 1 |->
                                   responses[k + 1 + i].totalCommitContributions],
                               Len(responses) - k - 1)
        /\ created_at # NoTime
        /\ period_start >= now

C4_Witness ==
    /\ pc = "failed"
    /\ ContribRequests # <<>>
    /\ BadResponse(Last(responses))
    /\ total_commits > 0
    /\ ~Written

Missing(v) == v = NoneS \/ v = ""

\* C5: with no token under either name, or with no login, the run ends with a
\* configuration error before any network call and before any file is read or
\* written.
C5_ConfigErrorBeforeAnyCall ==
    /\ pc = "start" => requests = <<>> /\ files = <<>>
    /\ (pc # "start" /\ ((Missing(env.GITHUB_TOKEN) /\ Missing(env.TOKEN)) \/ Missing(env.login))) =>
        /\ pc = "failed"
        /\ error \in {"SystemExit:missing_token", "SystemExit:missing_login"}
        /\ requests = <<>>
        /\ files = <<>>
        /\ readme = OldReadme

C5_Witness ==
    /\ pc = "failed"
    /\ error = "SystemExit:missing_token"
    /\ env.GITHUB_TOKEN = ""
    /\ env.TOKEN = NoneS
    /\ env.login = "octocat"

dataVars == <<total_stars, cursor, stars, created_at, now, period_start, total_commits,
              commits>>

\* C6: a call of execute sends exactly one request; a non-success HTTP status
\* fails with the transport error and an `errors` field with the API error; in
\* both cases nothing is retried, no data reaches the caller and the run is
\* over; only a response without `errors` hands its data to the caller.
C6_ExecuteFailsFast ==
    [][/\ Len(requests') \in {Len(requests), Len(requests) + 1}
       /\ Len(responses') = Len(requests')
       /\ pc = "failed" => requests' = requests
       /\ requests' # requests =>
           LET r == Last(responses') IN
           /\ r.status = "http_error" =>
               /\ pc' = "failed"
               /\ error' = "RuntimeError:request_failed"
               /\ UNCHANGED dataVars
           /\ (r.status = "ok" /\ r.errors) =>
               /\ pc' = "failed"
               /\ error' = "RuntimeError:api_errors"
               /\ UNCHANGED dataVars
           /\ ~UNCHANGED dataVars => r.status = "ok" /\ ~r.errors]_vars

C6_Witness ==
    /\ pc = "failed"
    /\ error = "RuntimeError:api_errors"
    /\ Last(responses).errors
    /\ Last(responses).user = "object"
    /\ Last(responses).totalCommitContributions > 0
    /\ Len(requests) = Len(responses)

NoSuchUser(r) == r.status = "ok" /\ ~r.errors /\ r.user \in {"null", "absent"}

\* C7: when the creation-date response reports no such account (user null or
\* absent), fetch_commit_total fails with the not-found error and issues no
\* windowed contribution request.
C7_NotFoundBeforeWindows ==
    (responses # <<>> /\ NoSuchUser(responses[1])) =>
        /\ pc = "failed"
        /\ error = "RuntimeError:user_not_found"
        /\ Len(requests) = 1
        /\ ContribRequests = <<>>
        /\ windows = <<>>

C7_Witness ==
    /\ responses # <<>>
    /\ responses[1] = NullUser
    /\ pc = "failed"
    /\ error = "RuntimeError:user_not_found"

\* C8, as claimed: a run of main against an account that does not exist (every
\* response has a null user and no errors field) ends with the not-found error.
C8_NotFoundInFullRun ==
    (pc = "failed" /\ responses # <<>> /\ \A i \in 1 .. Len(responses) : responses[i] = NullUser)
        => error = "RuntimeError:user_not_found"

\* C9, as claimed: the loop stops as soon as a window ends at N and runs at
\* most N.year - D.year + 1 times, for every D and N.
C9_Original ==
    created_at # NoTime =>
        /\ Len(windows) <= Year(now) - Year(created_at) + 1
        /\ \A i \in 1 .. Len(windows) : windows[i][2] = now => i = Len(windows)

\* C9, amended: the loop stops as soon as a window ends at N and runs at most
\* max(0, N.year - D.year + 1) times (no iteration at all when D >= N).
C9_LoopBoundedByYears ==
    created_at # NoTime =>
        /\ Len(windows) <= Max(0, Year(now) - Year(created_at) + 1)
        /\ \A i \in 1 .. Len(windows) : windows[i][2] = now => i = Len(windows)
        /\ (windows # <<>> /\ Last(windows)[2] = now /\ pc = "windows") =>
            (ENABLED CommitsReturn /\ ~ENABLED WindowRequest(AllCounts))
        /\ (pc = "stats_done" /\ windows # <<>>) => Last(windows)[2] = now

C9_Witness ==
    /\ pc = "stats_done"
    /\ Len(windows) = 3
    /\ Len(windows) = Year(now) - Year(created_at) + 1
    /\ Last(windows)[2] = now

\* C10: when the creation time is not earlier than the current time, the
\* result is zero commits without error and only the creation-date request
\* is made.
C10_FutureCreationGivesZero ==
    (created_at # NoTime /\ created_at >= now) =>
        /\ pc \in {"windows", "stats_done"}
        /\ error = "none"
        /\ Len(requests) = 1
        /\ ContribRequests = <<>>
        /\ windows = <<>>
        /\ pc = "windows" => (ENABLED CommitsReturn /\ ~ENABLED WindowRequest(AllCounts))
        /\ pc = "stats_done" => commits = 0

C10_Witness ==
    /\ pc = "stats_done"
    /\ created_at > now
    /\ commits = 0
    /\ Len(requests) = 1

====
